---- MODULE Spec2Model ----
(***************************************************************************)
(* Model of trainers/matroyshka_batch_top_k.py: the Matroyshka batch-top-k *)
(* sparse autoencoder (MatroyshkaBatchTopKSAE), its trainer                *)
(* (MatroyshkaBatchTopKTrainer) and the helper apply_temperature.          *)
(*                                                                         *)
(* Numbers.  Tensors hold reals; the model keeps them exact where it can:  *)
(*   - activations, weights and biases are fixed-point integers, 1.0 being *)
(*     written Scale (inputs x and b_dec are plain integers, W_enc, b_enc, *)
(*     W_dec and the code f are in units of 1/Scale);                      *)
(*   - the threshold and the learning-rate multiplier are exact rationals  *)
(*     <<numerator, denominator>>;                                         *)
(*   - apply_temperature works on powers of two, so that log and softmax   *)
(*     are exact (logits are integer multiples of ln 2).                   *)
(* Only the row normalisation of W_dec rounds (to the fixed-point grid).   *)
(***************************************************************************)
EXTENDS Integers, Sequences, FiniteSets, TLC

VARIABLES
    ae,                      \* the dictionary (self.ae): a record of its fields
    threshold_start_step,    \* trainer.threshold_start_step
    num_tokens_since_fired,  \* trainer.num_tokens_since_fired, one counter per feature
    last_epoch,              \* scheduler.last_epoch
    sched,                   \* [steps, warmup_steps, decay_start]: what lr_fn closes over
    lr_mult,                 \* the multiplier LambdaLR last computed, a rational
    step,                    \* the training loop's step counter (argument of update)
    call,                    \* the last call made from outside, and how it ended
    code,                    \* what the last encode returned: [f, active]
    aux,                     \* what the last get_auxiliary_loss worked on
    hist,                    \* ghost: tokens processed and features that ever fired
    temp,                    \* the last apply_temperature call: arguments and result
    group_weights,           \* trainer.group_weights, one rational per group
    loss_log                 \* what the last loss computed: its group terms and inputs

vars == <<ae, threshold_start_step, num_tokens_since_fired, last_epoch, sched,
          lr_mult, step, call, code, aux, hist, temp, group_weights, loss_log>>

trainerVars == <<threshold_start_step, num_tokens_since_fired, last_epoch, sched,
                 lr_mult, step, aux, hist, group_weights, loss_log>>

-----------------------------------------------------------------------------
(* Bounds of the model *)

\* Fixed-point unit: the real 1.0 is the integer Scale.
Scale == 10
\* Largest batch size (rows of x) of an update or an encode call.
MaxB == 2
\* Largest sparsity budget k of a dictionary.
MaxK == 2
\* Number of update calls of a run (the trainer's steps argument).
MaxSteps == 3
\* Largest total number of steps of a scheduler configuration in SpecLr.
MaxSchedSteps == 4
\* Longest probability list given to apply_temperature.
MaxProbs == 3

-----------------------------------------------------------------------------
(* Arithmetic helpers *)

Abs(n) == IF n < 0 THEN -n ELSE n

RECURSIVE SumSeq(_)
SumSeq(s) == IF s = <<>> THEN 0 ELSE s[1] + SumSeq(Tail(s))

Dot(u, v) == SumSeq([i \in 1..Len(u) |-> u[i] * v[i]])

Min(S) == CHOOSE m \in S : \A n \in S : m <= n

\* floor of the square root
ISqrt(n) == CHOOSE r \in 0..(n + 1) : r * r <= n /\ (r + 1) * (r + 1) > n

\* a / b rounded to the nearest integer (b > 0), as a floating division rounds
RoundDiv(a, b) == (2 * a + b) \div (2 * b)

RECURSIVE Pow(_, _)
Pow(b, e) == IF e = 0 THEN 1 ELSE b * Pow(b, e - 1)

\* Rationals <<n, d>> with d > 0
RatLess(p, q) == p[1] * q[2] < q[1] * p[2]
RatEq(p, q) == p[1] * q[2] = q[1] * p[2]
RatOfInt(n) == <<n, 1>>

-----------------------------------------------------------------------------
(* MatroyshkaBatchTopKSAE *)

\* Input rows (activation vectors of dimension 2) the batches are drawn from.
\* Coordinates are even, so that the midpoint of two rows is an integer vector.
XRows == {<<2, 0>>, <<0, 2>>, <<-2, 0>>}

\* Lexicographic order of rows.
RowLeq(u, v) == u[1] < v[1] \/ (u[1] = v[1] /\ u[2] <= v[2])

\* Batches: 1..MaxB rows.  Permuting the rows of a batch permutes the rows of
\* everything computed from it, so one order of each batch is enough.
Batches ==
    {x \in UNION {[1..n -> XRows] : n \in 1..MaxB} :
        \A i \in 1..(Len(x) - 1) : RowLeq(x[i], x[i + 1])}

\* group_sizes lists a dictionary is built with (each sums to its dict_size).
GroupSizeChoices == {<<1, 2>>, <<2, 1>>, <<1, 1, 1>>}

\* What kaiming_uniform_ may have drawn for W_dec, row by row (not normalised).
KaimingRows == << <<2 * Scale, 0>>, <<0, Scale>>, <<3, 4>>, <<-Scale, Scale>> >>

\* The unset threshold, -1.0.
UnsetThreshold == <<-Scale, 1>>

\* t.cumsum(group_sizes)[i], for i in 1..Len(group_sizes)
RECURSIVE cumsum(_, _)
cumsum(gs, i) == IF i = 0 THEN 0 ELSE gs[i] + cumsum(gs, i - 1)

\* group_indices = [0] + list(cumsum(group_sizes)): a list indexed from 0
group_indices_of(gs) == [i \in 0..Len(gs) |-> cumsum(gs, i)]

\* A Python number passed as k: the int n, or the float n + 0.5.
PyInt(n) == [type |-> "int", value |-> n]
PyFloat(n) == [type |-> "float", value |-> n]

\* isinstance(k, int)
isinstance_int(k) == k.type = "int"

\* k > 0 (the float n + 0.5 is positive exactly when n >= 0)
is_positive(k) == IF k.type = "int" THEN k.value > 0 ELSE k.value >= 0

\* Faulty variant: the assertion on the signs of the group sizes left out
SAEAccepts_signs_unchecked(dict_size, k, group_sizes) ==
    /\ cumsum(group_sizes, Len(group_sizes)) = dict_size
    /\ isinstance_int(k) /\ is_positive(k)

\* The three assertions of __init__.
SAEAccepts(dict_size, k, group_sizes) ==
    /\ cumsum(group_sizes, Len(group_sizes)) = dict_size
    /\ \A i \in 1..Len(group_sizes) : group_sizes[i] > 0
    /\ isinstance_int(k) /\ is_positive(k)

\* norm + eps of a row; eps (float32 machine epsilon) is below the grid.
RowNorm(row) == ISqrt(Dot(row, row))

\* One row of W_dec divided by its norm (+ eps, which keeps a zero row zero).
NormalisedRow(row) ==
    IF RowNorm(row) = 0 THEN row
    ELSE [i \in 1..Len(row) |-> RoundDiv(row[i] * Scale, RowNorm(row))]

\* set_decoder_norm_to_unit_norm, as a function of W_dec
set_decoder_norm_to_unit_norm(W_dec) ==
    [j \in 1..Len(W_dec) |-> NormalisedRow(W_dec[j])]

\* A row has unit norm, up to one step of the fixed-point grid.
IsUnitNorm(row) ==
    /\ Dot(row, row) >= (Scale - 1) * (Scale - 1)
    /\ Dot(row, row) <= (Scale + 1) * (Scale + 1)

Transpose(M, rows, cols) == [c \in 1..cols |-> [r \in 1..rows |-> M[r][c]]]

\* The dictionary __init__ leaves, given what kaiming_uniform_ drew.
NewSAE(activation_dim, dict_size, k, group_sizes, W_init) ==
    LET W == set_decoder_norm_to_unit_norm(W_init)
    IN  [activation_dim |-> activation_dim,
         dict_size      |-> dict_size,
         k              |-> k,
         threshold      |-> UnsetThreshold,
         active_groups  |-> Len(group_sizes),
         group_indices  |-> group_indices_of(group_sizes),
         group_sizes    |-> group_sizes,
         W_enc          |-> Transpose(W, dict_size, activation_dim),
         b_enc          |-> [j \in 1..dict_size |-> 0],
         W_dec          |-> W,
         b_dec          |-> [i \in 1..activation_dim |-> 0]]

relu(v) == IF v > 0 THEN v ELSE 0

\* relu((x - b_dec) @ W_enc + b_enc)
post_relu_feat_acts(d, x) ==
    [b \in 1..Len(x) |->
        [j \in 1..d.dict_size |->
            relu(SumSeq([i \in 1..d.activation_dim |->
                            (x[b][i] - d.b_dec[i]) * d.W_enc[i][j]])
                 + d.b_enc[j])]]

\* Position of entry (b, j) in the flattened matrix.
FlatIndex(d, b, j) == (b - 1) * d.dict_size + j

flatten(d, acts) ==
    [n \in 1..(Len(acts) * d.dict_size) |->
        acts[((n - 1) \div d.dict_size) + 1][((n - 1) % d.dict_size) + 1]]

\* Faulty variant: the budget taken along the wrong axis: self.k * x.size(1)
topk_count_wrong_axis(d, x) == d.k * d.activation_dim

\* The number of entries topk is asked for: self.k * x.size(0)
topk_count(d, x) == d.k * Len(x)

\* The K-th largest value of flat (1 <= K <= Len(flat)).
kth_largest(flat, K) ==
    CHOOSE c \in {flat[i] : i \in DOMAIN flat} :
        /\ Cardinality({i \in DOMAIN flat : flat[i] > c}) < K
        /\ Cardinality({i \in DOMAIN flat : flat[i] >= c}) >= K

\* The subsets of S with n elements.
RECURSIVE subsets_of_size(_, _)
subsets_of_size(S, n) ==
    IF n = 0 THEN {{}}
    ELSE IF Cardinality(S) < n THEN {}
    ELSE LET e == CHOOSE e \in S : TRUE
         IN  {T \cup {e} : T \in subsets_of_size(S \ {e}, n - 1)}
                 \cup subsets_of_size(S \ {e}, n)

\* The ways to take n of the positions tied at the cutoff value c.  Where the
\* tied value is 0 the choice shows nowhere (the entry is 0 taken or not:
\* topk's indices are only used to scatter its values into zeros), and the
\* lowest n positions stand for every choice.
tie_choices(tied, n, c) ==
    IF c = 0 THEN {{i \in tied : Cardinality({j \in tied : j < i}) < n}}
    ELSE subsets_of_size(tied, n)

\* The position sets topk may return, c being the K-th largest value: the
\* positions above c, and as many of those holding c as it takes to make K.
topk_at_cutoff(flat, K, c) ==
    LET above == {i \in DOMAIN flat : flat[i] > c}
    IN  {above \cup T :
            T \in tie_choices({i \in DOMAIN flat : flat[i] = c},
                              K - Cardinality(above), c)}

\* topk(K).indices: every set of K positions holding K largest values (ties
\* are broken by the implementation, so each such set is a possible result).
topk_indices(flat, K) == topk_at_cutoff(flat, K, kth_largest(flat, K))

\* zeros.flatten().scatter(indices, values).reshape(...)
scatter(d, acts, S) ==
    [b \in 1..Len(acts) |->
        [j \in 1..d.dict_size |->
            IF FlatIndex(d, b, j) \in S THEN acts[b][j] ELSE 0]]

\* acts * (acts > threshold)
above_threshold(d, acts) ==
    [b \in 1..Len(acts) |->
        [j \in 1..d.dict_size |->
            IF RatLess(d.threshold, RatOfInt(acts[b][j])) THEN acts[b][j] ELSE 0]]

\* max_act_index = self.group_indices[self.active_groups]
max_act_index(d) == d.group_indices[d.active_groups]

\* Faulty variant: the slice starts one column late
zero_inactive_late(d, enc) ==
    [b \in 1..Len(enc) |->
        [j \in 1..d.dict_size |->
            IF j - 1 > max_act_index(d) THEN 0 ELSE enc[b][j]]]

\* encoded_acts_BF[:, max_act_index:] = 0  (columns are numbered from 0 there)
zero_inactive(d, enc) ==
    [b \in 1..Len(enc) |->
        [j \in 1..d.dict_size |->
            IF j - 1 >= max_act_index(d) THEN 0 ELSE enc[b][j]]]

\* encoded_acts_BF.sum(0) > 0
active_mask(d, enc) ==
    [j \in 1..d.dict_size |-> SumSeq([b \in 1..Len(enc) |-> enc[b][j]]) > 0]

\* topk raises when asked for more entries than the flattened matrix has.
encode_raises(d, x, use_threshold) ==
    ~use_threshold /\ topk_count(d, x) > Len(x) * d.dict_size

\* encode(x, return_active=True, use_threshold): the possible results.
encode(d, x, use_threshold) ==
    LET acts == post_relu_feat_acts(d, x)
        sparse == IF use_threshold
                  THEN {above_threshold(d, acts)}
                  ELSE {scatter(d, acts, S) :
                            S \in topk_indices(flatten(d, acts), topk_count(d, x))}
    IN  {[f |-> zero_inactive(d, e), active |-> active_mask(d, zero_inactive(d, e))] :
            e \in sparse}

NoCall == [op |-> "none"]
NoCode == [f |-> <<>>, active |-> <<>>]
NoAux == [dead |-> {}, acts |-> <<>>, acts_aux |-> <<>>, post_relu |-> <<>>]
NoHist == [tokens |-> 0, fired |-> {}, every |-> {}, past |-> 0]
NoTemp == [probabilities |-> <<>>, temperature |-> <<1, 1>>, outcome |-> "none",
           weights |-> <<>>]
NoLossLog == [x |-> <<>>, f |-> <<>>, W_dec |-> <<>>, b_dec |-> <<>>,
              group_indices |-> <<>>, l2_losses |-> <<>>]
NoSched == [steps |-> 1, warmup_steps |-> 0, decay_start |-> <<>>]

-----------------------------------------------------------------------------
(* SpecEncode: a dictionary called from evaluation code *)

\* Thresholds a trained (or loaded) dictionary may hold: unset, 0.2, 1.0.
ThresholdChoices == {UnsetThreshold, <<2, 1>>, <<Scale, 1>>}

\* A dictionary as constructed, or as loaded from a trained state_dict.
InitEncode ==
    /\ \E gs \in GroupSizeChoices, kk \in 1..MaxK, th \in ThresholdChoices :
          LET F == cumsum(gs, Len(gs))
          IN  /\ SAEAccepts(F, PyInt(kk), gs)
              /\ ae = [NewSAE(2, F, kk, gs, SubSeq(KaimingRows, 1, F))
                         EXCEPT !.threshold = th]
    /\ threshold_start_step = 0
    /\ num_tokens_since_fired = <<>>
    /\ last_epoch = 0
    /\ sched = NoSched
    /\ lr_mult = <<1, 1>>
    /\ step = 0
    /\ call = NoCall
    /\ code = NoCode
    /\ aux = NoAux
    /\ hist = NoHist
    /\ group_weights = <<>>
    /\ loss_log = NoLossLog
    /\ temp = NoTemp

\* The runtime knob: ae.active_groups = g
SetActiveGroups(g) ==
    /\ g \in 1..Len(ae.group_sizes)
    /\ ae' = [ae EXCEPT !.active_groups = g]
    /\ call' = [op |-> "set_active_groups"]
    /\ code' = NoCode
    /\ UNCHANGED <<trainerVars, temp>>

\* ae.encode(x, return_active=True, use_threshold=use_threshold)
Encode(x, use_threshold) ==
    /\ IF encode_raises(ae, x, use_threshold)
       THEN /\ call' = [op |-> "encode", x |-> x, use_threshold |-> use_threshold,
                        outcome |-> "RuntimeError"]
            /\ code' = NoCode
       ELSE /\ call' = [op |-> "encode", x |-> x, use_threshold |-> use_threshold,
                        outcome |-> "returned"]
            /\ code' \in encode(ae, x, use_threshold)
    /\ UNCHANGED <<ae, trainerVars, temp>>

NextEncode ==
    \/ \E g \in 1..Len(ae.group_sizes) : SetActiveGroups(g)
    \/ \E x \in Batches, ut \in BOOLEAN : Encode(x, ut)

SpecEncode == InitEncode /\ [][NextEncode]_vars

\* Number of nonzero entries of a matrix / of one of its rows.
NonzeroInRow(row) == Cardinality({j \in DOMAIN row : row[j] # 0})
NonzeroCount(f) == SumSeq([b \in 1..Len(f) |-> NonzeroInRow(f[b])])

Encoded == call.op = "encode" /\ call.outcome = "returned"

(* C1: whatever the group sizes, the number of active groups, the batch and
   the sparsification mode, the code encode returns is zero in every column
   whose (0-based) index is at least group_indices[active_groups]. *)
C1_InactiveColumnsZero ==
    Encoded =>
        \A b \in 1..Len(code.f) : \A j \in 1..ae.dict_size :
            (j - 1 >= ae.group_indices[ae.active_groups]) => code.f[b][j] = 0

\* A trailing group is disabled and one of its features would have fired.
C1_Witness ==
    /\ Encoded
    /\ ae.active_groups < Len(ae.group_sizes)
    /\ \E b \in 1..Len(call.x) : \E j \in 1..ae.dict_size :
          /\ j - 1 >= ae.group_indices[ae.active_groups]
          /\ post_relu_feat_acts(ae, call.x)[b][j] > 0
          /\ (call.use_threshold =>
                 RatLess(ae.threshold, RatOfInt(post_relu_feat_acts(ae, call.x)[b][j])))

(* C2: with use_threshold = False the code of a batch of B rows has at most
   k * B nonzero entries in total (the budget is over the whole batch, not
   per row). *)
C2_GlobalBudget ==
    (Encoded /\ ~call.use_threshold) =>
        NonzeroCount(code.f) <= ae.k * Len(call.x)

\* The budget is global: one row holds more than k nonzero entries.
C2_Witness ==
    /\ Encoded /\ ~call.use_threshold
    /\ \E b \in 1..Len(code.f) : NonzeroInRow(code.f[b]) > ae.k
    /\ NonzeroCount(code.f) <= ae.k * Len(call.x)

-----------------------------------------------------------------------------
(* MatroyshkaBatchTopKTrainer *)

\* The source's dead_feature_threshold is 10,000,000 tokens; runs of MaxSteps
\* batches of at most MaxB tokens never get there, so the model counts a
\* feature dead after this many tokens instead.
dead_feature_threshold == 4

\* threshold_beta (the source's default is 0.999; any decay in (0, 1) does)
threshold_beta == <<9, 10>>

\* top_k_aux = activation_dim // 2
top_k_aux(d) == d.activation_dim \div 2

\* decay_start is None (written <<>>) or an integer n (written <<n>>).
None == <<>>

\* The assertions of the trainer's __init__ on the schedule.
ScheduleAccepted(steps, warmup_steps, decay_start) ==
    /\ decay_start # None =>
          /\ 0 <= decay_start[1] /\ decay_start[1] < steps
          /\ decay_start[1] > warmup_steps
    /\ 0 <= warmup_steps /\ warmup_steps < steps

\* Faulty variant: the warm-up ramp counted from 1
lr_fn_ramp_from_one(s, n) ==
    IF n < s.warmup_steps THEN <<n + 1, s.warmup_steps>>
    ELSE IF s.decay_start # None /\ n >= s.decay_start[1]
         THEN <<s.steps - n, s.steps - s.decay_start[1]>>
         ELSE <<1, 1>>

\* lr_fn(step), a rational; s is what the closure holds
lr_fn(s, n) ==
    IF n < s.warmup_steps THEN <<n, s.warmup_steps>>
    ELSE IF s.decay_start # None /\ n >= s.decay_start[1]
         THEN <<s.steps - n, s.steps - s.decay_start[1]>>
         ELSE <<1, 1>>

\* geometric_median(points) for the batches update gives it in the model: two
\* distinct points.  The first guess is the mean; both points are equally far
\* from it, so the weights are 1/2 each, the next guess is the mean again and
\* the loop ends.  (A point equal to the guess gives a weight 1/0: the model's
\* first batches avoid it.)
geometric_median(points) ==
    [i \in 1..Len(points[1]) |->
        SumSeq([b \in 1..Len(points) |-> points[b][i]]) \div Len(points)]

\* Batches for which the Weiszfeld iteration is the one step described above.
MedianBatches == {x \in Batches : Len(x) = 2 /\ x[1] # x[2]}

\* Faulty variant: the start step itself counts as past the start
past_threshold_start_inclusive(n, start) == n >= start

\* step > self.threshold_start_step
past_threshold_start(n, start) == n > start

\* f[f > 0]
positive_entries(f) ==
    {f[b][j] : b \in DOMAIN f, j \in 1..(IF f = <<>> THEN 0 ELSE Len(f[1]))} \ {0}

\* min_activation: the Python float 0.0 when nothing is active, else a tensor
min_activation(f) ==
    IF positive_entries(f) = {} THEN [float |-> 0]
    ELSE [tensor |-> Min(positive_entries(f))]

IsTensor(v) == "tensor" \in DOMAIN v

\* self.ae.threshold < 0
threshold_unset(d) == RatLess(d.threshold, <<0, 1>>)

\* Faulty variant: the weights of the running average swapped
ema_swapped(old, m) ==
    <<(threshold_beta[2] - threshold_beta[1]) * old[1] + threshold_beta[1] * m * old[2],
      threshold_beta[2] * old[2]>>

\* threshold_beta * threshold + (1 - threshold_beta) * min_activation
ema(old, m) ==
    <<threshold_beta[1] * old[1] + (threshold_beta[2] - threshold_beta[1]) * m * old[2],
      threshold_beta[2] * old[2]>>

\* threshold is a registered buffer of the module: assigning anything but a
\* tensor (or None) to it raises TypeError in nn.Module.__setattr__.  The unset
\* branch assigns min_activation itself; the other branch assigns a product
\* with the threshold tensor, which is a tensor.
threshold_assign_raises(d, f) ==
    threshold_unset(d) /\ ~IsTensor(min_activation(f))

\* The threshold the block under "if step > self.threshold_start_step" leaves.
updated_threshold(d, f) ==
    LET m == min_activation(f)
        v == IF IsTensor(m) THEN m.tensor ELSE m.float
    IN  IF threshold_unset(d) THEN <<v, 1>> ELSE ema(d.threshold, v)

\* self.num_tokens_since_fired += num_tokens_in_step
add_tokens(cnt, n) == [j \in DOMAIN cnt |-> cnt[j] + n]

\* self.num_tokens_since_fired[did_fire] = 0
reset_fired(cnt, did_fire) == [j \in DOMAIN cnt |-> IF did_fire[j] THEN 0 ELSE cnt[j]]

\* Faulty variant: the reset done before the increment
count_tokens_reset_first(cnt, did_fire, n) == add_tokens(reset_fired(cnt, did_fire), n)

\* The dead-feature bookkeeping of loss.
count_tokens(cnt, did_fire, n) == reset_fired(add_tokens(cnt, n), did_fire)

\* Faulty variant: a threshold of 0 tokens, which a counter just reset meets
dead_features_threshold_zero(cnt) == {j \in DOMAIN cnt : cnt[j] >= 0}

\* dead_features = self.num_tokens_since_fired >= self.dead_feature_threshold
dead_features(cnt) == {j \in DOMAIN cnt : cnt[j] >= dead_feature_threshold}

\* t.topk(acts[:, dead], k_aux) scattered into zeros, for one row: the possible
\* results (ties again broken by the implementation).  Columns that are not
\* dead are not part of the tensor and are written 0 here.
aux_row(row, dead, k_aux) ==
    {[j \in DOMAIN row |-> IF j \in S THEN row[j] ELSE 0] :
        S \in {T \in subsets_of_size(dead, k_aux) :
                  \A i \in T : \A j \in dead \ T : row[i] >= row[j]}}

\* acts_aux of get_auxiliary_loss(x, x_reconstruct, acts): the possible values
RECURSIVE aux_rows(_, _, _)
aux_rows(acts, dead, k_aux) ==
    IF acts = <<>> THEN {<<>>}
    ELSE {<<r>> \o rest : r \in aux_row(acts[1], dead, k_aux),
                          rest \in aux_rows(Tail(acts), dead, k_aux)}

acts_aux_of(d, acts, dead) ==
    aux_rows(acts, dead, IF top_k_aux(d) < Cardinality(dead)
                         THEN top_k_aux(d) ELSE Cardinality(dead))

\* What optimizer.step() adds to the parameters, at learning-rate multiplier
\* m.  Adam's increment is lr * m * (a function of the gradients' history):
\* nothing at m = 0, and otherwise taken here to be a fixed increment of the
\* first feature's decoder row (across the row, as the projected gradient is)
\* and encoder bias.
adam_increment(m) ==
    IF m[1] = 0 THEN [W_dec |-> <<0, 0>>, b_enc |-> 0]
    ELSE [W_dec |-> <<0, Scale \div 2>>, b_enc |-> -Scale]

\* The parameters after optimizer.step()
optimizer_step(d, m) ==
    [d EXCEPT !.W_dec[1] = [i \in 1..d.activation_dim |->
                                d.W_dec[1][i] + adam_increment(m).W_dec[i]],
              !.b_enc[1] = d.b_enc[1] + adam_increment(m).b_enc]

\* The dictionary after ae.set_decoder_norm_to_unit_norm()
normalised(d) == [d EXCEPT !.W_dec = set_decoder_norm_to_unit_norm(d.W_dec)]

\* float32 values met here: v * ln 2 for an integer v, the infinities, NaN.
Fin(v) == [kind |-> "fin", v |-> v]
PInf == [kind |-> "pinf"]
NInf == [kind |-> "ninf"]
NaN == [kind |-> "nan"]

Log2(n) == CHOOSE e \in 0..n : Pow(2, e) = n

\* t.log of p / 4, in units of ln 2: NaN below 0, -inf at 0 (no error is raised)
tensor_log(p) ==
    IF p < 0 THEN NaN
    ELSE IF p = 0 THEN NInf
    ELSE Fin(Log2(p) - Log2(4))

\* logits / temperature, in IEEE arithmetic (no error is raised at 0)
tensor_div(l, tau) ==
    IF l.kind = "nan" THEN NaN
    ELSE IF tau[1] = 0
         THEN IF l.kind = "fin"
              THEN (IF l.v = 0 THEN NaN ELSE IF l.v > 0 THEN PInf ELSE NInf)
              ELSE l
    ELSE IF l.kind = "fin"
         THEN Fin(IF tau[1] > 0 THEN (l.v * tau[2]) \div tau[1]
                  ELSE -((l.v * tau[2]) \div (-tau[1])))
    ELSE IF tau[1] > 0 THEN l
    ELSE IF l.kind = "ninf" THEN PInf ELSE NInf

\* softmax(dim=0): exp(l - max) / sum.  A NaN, a +inf (inf - inf) or nothing
\* but -inf makes every entry NaN; otherwise -inf entries get 0.
softmax(ls) ==
    IF \/ \E i \in DOMAIN ls : ls[i].kind \in {"nan", "pinf"}
       \/ \A i \in DOMAIN ls : ls[i].kind = "ninf"
    THEN [i \in DOMAIN ls |-> NaN]
    ELSE LET fin == {i \in DOMAIN ls : ls[i].kind = "fin"}
             low == Min({ls[i].v : i \in fin})
             total == SumSeq([i \in DOMAIN ls |->
                                IF i \in fin THEN Pow(2, ls[i].v - low) ELSE 0])
         IN  [i \in DOMAIN ls |->
                IF i \in fin THEN [kind |-> "num", q |-> <<Pow(2, ls[i].v - low), total>>]
                ELSE [kind |-> "num", q |-> <<0, 1>>]]

\* apply_temperature(probabilities, temperature): nothing in it validates its
\* arguments or raises on them; it returns softmax(log(p) / temperature).
apply_temperature(probabilities, temperature) ==
    [outcome |-> "returned",
     weights |-> softmax([i \in DOMAIN probabilities |->
                            tensor_div(tensor_log(probabilities[i]), temperature)])]

\* The group_weights argument, in quarters: 0.25 for every group but the
\* last, 0.5 for the last.
GroupWeightsArg(G) == [i \in 1..G |-> IF i = G THEN 2 ELSE 1]

\* self.group_weights = apply_temperature(group_weights, weights_temperature)
group_weights_of(weights, temperature) ==
    [i \in DOMAIN weights |-> apply_temperature(weights, temperature).weights[i].q]

\* Faulty variant: every group's term taken on the reconstruction from all
\* the active groups
x_reconstruct_entry_all_groups(d, row, c, i) ==
    d.b_dec[c] * Scale * Scale +
    SumSeq([j \in 1..d.group_indices[d.active_groups] |-> row[j] * d.W_dec[j][c]])

\* One entry of x_reconstruct after i rounds of the loop over the groups, in
\* units of 1/Scale^2: b_dec[c] to start with, then + acts_slice @ W_dec_slice
\* per round.  row is the sample's row of the code.
RECURSIVE x_reconstruct_entry(_, _, _, _)
x_reconstruct_entry(d, row, c, i) ==
    IF i = 0
    THEN d.b_dec[c] * Scale * Scale
    ELSE x_reconstruct_entry(d, row, c, i - 1) +
         SumSeq([j \in 1..(d.group_indices[i] - d.group_indices[i - 1]) |->
                    row[d.group_indices[i - 1] + j] *
                    d.W_dec[d.group_indices[i - 1] + j][c]])

Square(v) == v * v

\* (x_reconstruct - x).pow(2).sum(dim=-1), summed over the batch, after i
\* rounds; in units of 1/Scale^4
summed_squared_error(d, x, f, i) ==
    SumSeq([b \in 1..Len(x) |->
              SumSeq([c \in 1..Len(x[b]) |->
                        Square(x_reconstruct_entry(d, f[b], c, i) -
                               x[b][c] * Scale * Scale)])])

\* l2_loss of round i: the batch mean of that error times group_weights[i],
\* an exact rational
l2_loss(d, x, f, weights, i) ==
    <<summed_squared_error(d, x, f, i) * weights[i][1], Len(x) * weights[i][2]>>

\* l2_losses, one term per active group, in the order of the loop
l2_losses(d, x, f, weights) ==
    [i \in 1..d.active_groups |-> l2_loss(d, x, f, weights, i)]

\* Configurations of the trainer in the model.
TrainGroupSizes == {<<1, 2>>, <<1, 1, 1>>}
ThresholdStartChoices == {0, MaxSteps}

\* The trainer as its __init__ leaves it.
Init ==
    /\ \E gs \in TrainGroupSizes, kk \in 1..MaxK :
          LET F == cumsum(gs, Len(gs))
          IN  /\ SAEAccepts(F, PyInt(kk), gs)
              /\ ae = NewSAE(2, F, kk, gs, SubSeq(KaimingRows, 1, F))
              /\ num_tokens_since_fired = [j \in 1..F |-> 0]
              /\ group_weights = group_weights_of(GroupWeightsArg(Len(gs)), <<1, 1>>)
    /\ threshold_start_step \in ThresholdStartChoices
    /\ sched = [steps |-> MaxSteps, warmup_steps |-> 1, decay_start |-> None]
    /\ ScheduleAccepted(sched.steps, sched.warmup_steps, sched.decay_start)
    /\ last_epoch = 0
    /\ lr_mult = lr_fn(sched, 0)
    /\ step = 0
    /\ call = NoCall
    /\ code = NoCode
    /\ aux = NoAux
    /\ hist = NoHist
    /\ loss_log = NoLossLog
    /\ temp = NoTemp

Crashed == call.op = "update" /\ call.outcome # "returned"

UpdateCall(x, outcome) ==
    [op |-> "update", step |-> step, x |-> x, outcome |-> outcome,
     threshold_before |-> ae.threshold]

\* trainer.update(step, x), the whole of it
Update(x) ==
    /\ ~Crashed
    /\ step < sched.steps
    /\ step = 0 => x \in MedianBatches
    /\ \E d1 \in {normalised(IF step = 0
                             THEN [ae EXCEPT !.b_dec = geometric_median(x)]
                             ELSE ae)} :
       LET B == Len(x)
       IN  IF encode_raises(d1, x, FALSE)
           THEN /\ ae' = d1
                /\ call' = UpdateCall(x, "RuntimeError")
                /\ code' = NoCode
                /\ UNCHANGED trainerVars
           ELSE \E r \in encode(d1, x, FALSE) :
                IF past_threshold_start(step, threshold_start_step)
                   /\ threshold_assign_raises(d1, r.f)
                THEN /\ ae' = d1
                     /\ call' = UpdateCall(x, "TypeError")
                     /\ code' = r
                     /\ UNCHANGED trainerVars
                ELSE \E d2 \in {IF past_threshold_start(step, threshold_start_step)
                                THEN [d1 EXCEPT !.threshold = updated_threshold(d1, r.f)]
                                ELSE d1},
                        cnt \in {count_tokens(num_tokens_since_fired, r.active, B)} :
                     LET dead == dead_features(cnt)
                     IN  /\ num_tokens_since_fired' = cnt
                         /\ IF dead # {}
                            THEN \E a \in acts_aux_of(d2, r.f, dead) :
                                    aux' = [dead |-> dead, acts |-> r.f, acts_aux |-> a,
                                            post_relu |-> post_relu_feat_acts(d1, x)]
                            ELSE aux' = [dead |-> {}, acts |-> r.f, acts_aux |-> <<>>,
                                         post_relu |-> post_relu_feat_acts(d1, x)]
                         /\ ae' = optimizer_step(d2, lr_mult)
                         /\ last_epoch' = last_epoch + 1
                         /\ lr_mult' = lr_fn(sched, last_epoch + 1)
                         /\ step' = step + 1
                         /\ call' = UpdateCall(x, "returned")
                         /\ code' = r
                         /\ loss_log' = [x |-> x, f |-> r.f, W_dec |-> d2.W_dec,
                                         b_dec |-> d2.b_dec,
                                         group_indices |-> d2.group_indices,
                                         l2_losses |-> l2_losses(d2, x, r.f,
                                                                 group_weights)]
                         /\ hist' = [tokens |-> hist.tokens + B,
                                     fired |-> hist.fired \cup
                                               {j \in DOMAIN cnt : r.active[j]},
                                     every |-> {j \in DOMAIN cnt :
                                                  /\ r.active[j]
                                                  /\ step > 0 => j \in hist.every},
                                     past |-> hist.past +
                                              IF past_threshold_start(
                                                     step, threshold_start_step)
                                              THEN 1 ELSE 0]
                         /\ UNCHANGED <<threshold_start_step, sched, group_weights>>
    /\ UNCHANGED temp

Next == \E x \in Batches : Update(x)

Spec == Init /\ [][Next]_vars

-----------------------------------------------------------------------------
(* Claims about the trainer, checked under Spec *)

\* Exact rational arithmetic for the statements below.
RatAdd(p, q) == <<p[1] * q[2] + q[1] * p[2], p[2] * q[2]>>
RatMul(p, q) == <<p[1] * q[1], p[2] * q[2]>>
RatSub(p, q) == <<p[1] * q[2] - q[1] * p[2], p[2] * q[2]>>

Updated == call.op = "update" /\ call.outcome = "returned"

\* Feature j is nonzero in at least one row of the code f.
Fired(f, j) == \E b \in DOMAIN f : f[b][j] # 0

Features == DOMAIN num_tokens_since_fired

C3_StepRule ==
    (call'.op = "update" /\ call'.outcome = "returned" /\ step' = step + 1) =>
        \A j \in Features :
            num_tokens_since_fired'[j] =
                IF Fired(code'.f, j) THEN 0
                ELSE num_tokens_since_fired[j] + Len(call'.x)

C3_Totals ==
    /\ Updated =>
          \A j \in Features : Fired(code.f, j) => num_tokens_since_fired[j] = 0
    /\ \A j \in Features \ hist.fired : num_tokens_since_fired[j] = hist.tokens
    /\ \A j \in hist.every : num_tokens_since_fired[j] = 0

(* C3: after each training step the since-fired counter is 0 for every
   feature that fired in the step (nonzero in some row of the step's code) and
   its previous value plus the batch size for every other feature; so a
   feature that fired in every step has counter 0 after each step, and one that
   never fired has counter N * B after N steps (the tokens processed). *)
C3_DeadFeatureAccounting == [][C3_StepRule]_vars /\ []C3_Totals

\* Two steps done: one feature fired in both, another in neither, a third
\* fired in the first only.
C3_Witness ==
    /\ Updated /\ step >= 2
    /\ \E j \in hist.every : num_tokens_since_fired[j] = 0
    /\ \E j \in Features \ hist.fired : num_tokens_since_fired[j] = hist.tokens
    /\ \E j \in hist.fired \ hist.every :
          /\ num_tokens_since_fired[j] > 0
          /\ num_tokens_since_fired[j] < hist.tokens

(* C4: in the state in which update returns, every row of W_dec has unit
   Euclidean norm. *)
C4_UnitNormWhenUpdateReturns ==
    Updated => \A j \in 1..ae.dict_size : IsUnitNorm(ae.W_dec[j])

C5_StepRule ==
    (call'.op = "update" /\ call' # call /\ call'.step <= threshold_start_step) =>
        ae'.threshold = ae.threshold

\* No update so far had a step past threshold_start_step.
NeverPastStart == call.op = "update" => call.step <= threshold_start_step

(* C5: the threshold starts at the sentinel -1; an update whose step has not
   passed threshold_start_step leaves it unchanged; so as long as no update's
   step has passed threshold_start_step the threshold is -1. *)
C5_ThresholdStaysUnset ==
    /\ [][C5_StepRule]_vars
    /\ [](NeverPastStart => ae.threshold = <<-Scale, 1>>)

\* Several updates, none past the start, the last with active features: the
\* threshold is still unset.
C5_Witness ==
    /\ Updated /\ call.step >= 1
    /\ call.step <= threshold_start_step
    /\ positive_entries(code.f) # {}
    /\ ae.threshold = <<-Scale, 1>>

\* The smallest positive entry of the code f (f has one).
MinPositive(f) ==
    CHOOSE m \in {f[b][j] : b \in DOMAIN f, j \in DOMAIN f[1]} :
        /\ m > 0
        /\ \A b \in DOMAIN f : \A j \in DOMAIN f[1] : f[b][j] > 0 => m <= f[b][j]

HasPositive(f) == \E b \in DOMAIN f : \E j \in DOMAIN f[b] : f[b][j] > 0

C6_StepRule ==
    (/\ call'.op = "update" /\ call'.outcome = "returned" /\ step' = step + 1
     /\ call'.step > threshold_start_step
     /\ HasPositive(code'.f)) =>
        IF hist.past = 0
        THEN ae'.threshold = <<MinPositive(code'.f), 1>>
        ELSE RatEq(ae'.threshold,
                   RatAdd(RatMul(threshold_beta, ae.threshold),
                          RatMul(RatSub(<<1, 1>>, threshold_beta),
                                 <<MinPositive(code'.f), 1>>)))

(* C6: the first update past threshold_start_step sets the threshold to that
   batch's minimum positive code value itself; every later update past it sets
   the threshold to threshold_beta * old + (1 - threshold_beta) * (the batch's
   minimum positive code value). *)
C6_ThresholdSetThenSmoothed == [][C6_StepRule]_vars

\* A second update past the start whose running average differs from both
\* the old threshold and the batch's minimum.
C6_Witness ==
    /\ Updated /\ hist.past = 2
    /\ HasPositive(code.f)
    /\ ~RatEq(ae.threshold, <<MinPositive(code.f), 1>>)
    /\ ~RatEq(ae.threshold, call.threshold_before)
    /\ ~RatLess(call.threshold_before, <<0, 1>>)

(* C7: an update past threshold_start_step whose code has no positive entry
   completes normally, with 0 as the batch minimum: an unset threshold becomes
   0, a set one becomes threshold_beta * old. *)
C7_EmptyCodeHandled ==
    (/\ call.op = "update"
     /\ call.step > threshold_start_step
     /\ code # NoCode /\ ~HasPositive(code.f)) =>
        /\ call.outcome = "returned"
        /\ IF RatLess(call.threshold_before, <<0, 1>>)
           THEN RatEq(ae.threshold, <<0, 1>>)
           ELSE RatEq(ae.threshold, RatMul(threshold_beta, call.threshold_before))

(* C8: when some feature is dead, the auxiliary activations are the dead
   features' pre-sparsification activations, the top min(top_k_aux, #dead) of
   them kept per sample and the rest zeroed (so a dead feature with a positive
   pre-sparsification activation that is among them has a nonzero entry). *)
C8_AuxFromPreActivations ==
    (Updated /\ aux.dead # {}) =>
        aux.acts_aux \in acts_aux_of(ae, aux.post_relu, aux.dead)

-----------------------------------------------------------------------------
(* SpecLr: the learning-rate schedule (LambdaLR over lr_fn) *)

\* The schedule of the documented scenario.
ScenarioSched == [steps |-> 1000, warmup_steps |-> 100, decay_start |-> <<800>>]

\* Schedules the trainer's constructor accepts: all small ones, and the scenario.
SchedChoices ==
    {s \in [steps : 1..MaxSchedSteps, warmup_steps : 0..MaxSchedSteps,
            decay_start : {None} \cup {<<n>> : n \in 0..MaxSchedSteps}] :
        ScheduleAccepted(s.steps, s.warmup_steps, s.decay_start)}
    \cup {ScenarioSched}

\* The scheduler as constructed: LambdaLR computes the multiplier of epoch 0.
InitLr ==
    /\ sched \in SchedChoices
    /\ last_epoch = 0
    /\ lr_mult = lr_fn(sched, 0)
    /\ ae = [dict_size |-> 0]
    /\ threshold_start_step = 0
    /\ num_tokens_since_fired = <<>>
    /\ step = 0
    /\ call = NoCall
    /\ code = NoCode
    /\ aux = NoAux
    /\ hist = NoHist
    /\ group_weights = <<>>
    /\ loss_log = NoLossLog
    /\ temp = NoTemp

\* scheduler.step(), once per update of a run of sched.steps updates
SchedulerStep ==
    /\ last_epoch < sched.steps
    /\ last_epoch' = last_epoch + 1
    /\ lr_mult' = lr_fn(sched, last_epoch + 1)
    /\ call' = [op |-> "scheduler.step"]
    /\ UNCHANGED <<ae, threshold_start_step, num_tokens_since_fired, sched, step,
                   code, aux, hist, temp, group_weights, loss_log>>

NextLr == SchedulerStep

SpecLr == InitLr /\ [][NextLr]_vars

HasDecay == sched.decay_start # None

(* C9: for an accepted schedule and a step in 0..steps-1 the multiplier is
   step / warmup_steps during warm-up (step < warmup_steps),
   (steps - step) / (steps - decay_start) from decay_start on, and 1
   otherwise; with steps = 1000, warmup_steps = 100, decay_start = 800 it is 0
   at step 0, 1/2 at step 50, 1 at steps 100..799 and 1/2 at step 900. *)
C9_LrMultiplier ==
    (last_epoch <= sched.steps - 1) =>
        /\ last_epoch < sched.warmup_steps =>
              RatEq(lr_mult, <<last_epoch, sched.warmup_steps>>)
        /\ (HasDecay /\ last_epoch >= sched.decay_start[1]) =>
              RatEq(lr_mult, <<sched.steps - last_epoch,
                               sched.steps - sched.decay_start[1]>>)
        /\ (/\ last_epoch >= sched.warmup_steps
            /\ ~(HasDecay /\ last_epoch >= sched.decay_start[1])) =>
              RatEq(lr_mult, <<1, 1>>)
        /\ sched = ScenarioSched =>
              /\ last_epoch = 0 => RatEq(lr_mult, <<0, 1>>)
              /\ last_epoch = 50 => RatEq(lr_mult, <<1, 2>>)
              /\ (last_epoch >= 100 /\ last_epoch <= 799) => RatEq(lr_mult, <<1, 1>>)
              /\ last_epoch = 900 => RatEq(lr_mult, <<1, 2>>)

\* Step 900 of the scenario, half-way down the decay.
C9_Witness ==
    /\ sched = ScenarioSched
    /\ last_epoch = 900
    /\ RatEq(lr_mult, <<1, 2>>)

-----------------------------------------------------------------------------
(* SpecTemp: apply_temperature *)

\* Probabilities are written in quarters: p stands for p / 4, so these are
\* -1/4, 0, 1/4, 1/2 and 1.
ProbVals == {-1, 0, 1, 2, 4}

\* Temperatures, rationals <<n, d>> with n in {-1, 0, 1}: -1, 0, 1, 1/2.
TempVals == {<<-1, 1>>, <<0, 1>>, <<1, 1>>, <<1, 2>>}

InitTemp ==
    /\ temp = NoTemp
    /\ ae = [dict_size |-> 0]
    /\ threshold_start_step = 0
    /\ num_tokens_since_fired = <<>>
    /\ last_epoch = 0
    /\ sched = NoSched
    /\ lr_mult = <<1, 1>>
    /\ step = 0
    /\ call = NoCall
    /\ code = NoCode
    /\ aux = NoAux
    /\ hist = NoHist
    /\ group_weights = <<>>
    /\ loss_log = NoLossLog

\* group_weights = apply_temperature(group_weights, weights_temperature)
ApplyTemperature(probabilities, temperature) ==
    /\ temp' = [probabilities |-> probabilities, temperature |-> temperature,
                outcome |-> apply_temperature(probabilities, temperature).outcome,
                weights |-> apply_temperature(probabilities, temperature).weights]
    /\ call' = [op |-> "apply_temperature"]
    /\ UNCHANGED <<ae, trainerVars, code>>

NextTemp ==
    \E n \in 1..MaxProbs : \E ps \in [1..n -> ProbVals] : \E tau \in TempVals :
        ApplyTemperature(ps, tau)

SpecTemp == InitTemp /\ [][NextTemp]_vars

(* C10: apply_temperature fails with a domain error whenever some input
   probability is <= 0 or the temperature is <= 0, and never returns a weight
   list for such inputs. *)
C10_DomainErrorRaised ==
    (/\ call.op = "apply_temperature"
     /\ \/ \E i \in DOMAIN temp.probabilities : temp.probabilities[i] <= 0
        \/ temp.temperature[1] <= 0) =>
        temp.outcome = "raised"

-----------------------------------------------------------------------------
(* SpecConstruct: MatroyshkaBatchTopKSAE(activation_dim, dict_size, k,     *)
(* group_sizes) called with arguments of every kind                        *)

\* No dictionary: the constructor has not returned one.
NoSAE == [dict_size |-> 0]

\* Arguments the constructor is called with.
GroupSizeArgs == UNION {[1..n -> -1..2] : n \in 0..3}
DictSizeArgs == 0..3
KArgs == {PyInt(n) : n \in -1..MaxK} \cup {PyFloat(-1), PyFloat(1)}

InitConstruct ==
    /\ ae = NoSAE
    /\ threshold_start_step = 0
    /\ num_tokens_since_fired = <<>>
    /\ last_epoch = 0
    /\ sched = NoSched
    /\ lr_mult = <<1, 1>>
    /\ step = 0
    /\ call = NoCall
    /\ code = NoCode
    /\ aux = NoAux
    /\ hist = NoHist
    /\ group_weights = <<>>
    /\ loss_log = NoLossLog
    /\ temp = NoTemp

ConstructCall(activation_dim, dict_size, k, group_sizes, outcome) ==
    [op |-> "__init__", activation_dim |-> activation_dim, dict_size |-> dict_size,
     k |-> k, group_sizes |-> group_sizes, outcome |-> outcome]

\* MatroyshkaBatchTopKSAE(activation_dim, dict_size, k, group_sizes)
Construct(activation_dim, dict_size, k, group_sizes) ==
    /\ IF SAEAccepts(dict_size, k, group_sizes)
       THEN /\ ae' = NewSAE(activation_dim, dict_size, k.value, group_sizes,
                            SubSeq(KaimingRows, 1, dict_size))
            /\ call' = ConstructCall(activation_dim, dict_size, k, group_sizes,
                                     "returned")
       ELSE /\ ae' = NoSAE
            /\ call' = ConstructCall(activation_dim, dict_size, k, group_sizes,
                                     "AssertionError")
    /\ code' = NoCode
    /\ UNCHANGED <<trainerVars, temp>>

NextConstruct ==
    \E F \in DictSizeArgs, k \in KArgs, gs \in GroupSizeArgs : Construct(2, F, k, gs)

SpecConstruct == InitConstruct /\ [][NextConstruct]_vars

Constructed == call.op = "__init__"

\* The arguments the constructor must refuse.
BadArguments ==
    \/ SumSeq(call.group_sizes) # call.dict_size
    \/ \E i \in DOMAIN call.group_sizes : call.group_sizes[i] <= 0
    \/ ~(call.k.type = "int" /\ call.k.value >= 1)

(* C11: constructing a MatroyshkaBatchTopKSAE fails with a validation error
   and yields no dictionary whenever sum(group_sizes) # dict_size, some group
   size is <= 0, or k is not a positive integer; for every other input it
   succeeds with active_groups = len(group_sizes), threshold = -1 and
   group_indices the prefix sums of group_sizes (length G + 1, first 0, last
   dict_size). *)
C11_ConstructorValidation ==
    Constructed =>
        IF BadArguments
        THEN call.outcome = "AssertionError" /\ ae = NoSAE
        ELSE /\ call.outcome = "returned"
             /\ ae.active_groups = Len(call.group_sizes)
             /\ RatEq(ae.threshold, <<-Scale, 1>>)
             /\ DOMAIN ae.group_indices = 0..Len(call.group_sizes)
             /\ ae.group_indices[0] = 0
             /\ ae.group_indices[Len(call.group_sizes)] = call.dict_size
             /\ \A i \in 1..Len(call.group_sizes) :
                   ae.group_indices[i] = ae.group_indices[i - 1] + call.group_sizes[i]

\* A construction refused only because of a non-positive group size: the
\* sizes sum to dict_size and k is a positive integer.
C11_Witness ==
    /\ Constructed
    /\ call.outcome = "AssertionError"
    /\ SumSeq(call.group_sizes) = call.dict_size
    /\ call.k.type = "int" /\ call.k.value >= 1
    /\ \E i \in DOMAIN call.group_sizes : call.group_sizes[i] <= 0

-----------------------------------------------------------------------------
(* The grouped loss, checked under Spec *)

\* The cumulative reconstruction of groups 0..i-1 (the first i groups) at
\* sample b, coordinate c, from its definition: b_dec plus the code columns
\* below group_indices[i] times their decoder rows.  Units of 1/Scale^2.
CumulativeReconstruction(i, b, c) ==
    loss_log.b_dec[c] * Scale * Scale +
    SumSeq([j \in 1..loss_log.group_indices[i] |->
                loss_log.f[b][j] * loss_log.W_dec[j][c]])

\* Sum over the samples of the summed squared error of that reconstruction.
SummedSquaredError(i) ==
    SumSeq([b \in 1..Len(loss_log.x) |->
        SumSeq([c \in 1..Len(loss_log.b_dec) |->
            Square(CumulativeReconstruction(i, b, c) -
                   loss_log.x[b][c] * Scale * Scale)])])

\* The dictionary and the code the loss saw, with everything that belongs to
\* the groups after the first i replaced: code columns by 1.0, decoder rows
\* by (1.0, ..., 1.0).
DictAlteredAfter(i) ==
    [activation_dim |-> Len(loss_log.b_dec),
     active_groups  |-> ae.active_groups,
     group_indices  |-> loss_log.group_indices,
     b_dec          |-> loss_log.b_dec,
     W_dec          |-> [j \in DOMAIN loss_log.W_dec |->
                            IF j <= loss_log.group_indices[i] THEN loss_log.W_dec[j]
                            ELSE [c \in 1..Len(loss_log.b_dec) |-> Scale]]]

CodeAlteredAfter(i) ==
    [b \in DOMAIN loss_log.f |->
        [j \in DOMAIN loss_log.f[b] |->
            IF j <= loss_log.group_indices[i] THEN loss_log.f[b][j] ELSE Scale]]

(* C12: in the trainer's loss the groups are processed in index order and
   the term of group i is group_weights[i] times the batch mean of the
   per-sample summed squared error between the target and the cumulative
   reconstruction b_dec + sum over groups 0..i of (code columns of the group
   times the group's decoder rows); the term of group i does not depend on
   the code columns or decoder rows of any later group. *)
C12_NestedGroupLoss ==
    Updated =>
        /\ DOMAIN loss_log.l2_losses = 1..ae.active_groups
        /\ \A i \in 1..ae.active_groups :
              /\ RatEq(loss_log.l2_losses[i],
                       <<group_weights[i][1] * SummedSquaredError(i),
                         group_weights[i][2] * Len(loss_log.x)>>)
              /\ l2_loss(DictAlteredAfter(i), loss_log.x, CodeAlteredAfter(i),
                         group_weights, i) = loss_log.l2_losses[i]

\* An update in which a group after the first has a nonzero code entry, so
\* that the first group's reconstruction differs from the full one, and the
\* first group's term is not zero.
C12_Witness ==
    /\ Updated
    /\ ae.active_groups >= 2
    /\ \E b \in DOMAIN loss_log.f :
          \E j \in (loss_log.group_indices[1] + 1)..Len(loss_log.f[b]) :
              /\ loss_log.f[b][j] # 0
              /\ \E c \in 1..Len(loss_log.b_dec) : loss_log.W_dec[j][c] # 0
    /\ loss_log.l2_losses[1][1] # 0
    /\ ~RatEq(loss_log.l2_losses[1], loss_log.l2_losses[ae.active_groups])

-----------------------------------------------------------------------------
(* The dead features of a step, checked under Spec *)

(* C13: in every training step each feature get_auxiliary_loss selects as
   dead (counter >= dead_feature_threshold) did not fire in that step, the
   counters of the fired features having been reset to 0 before the
   selection; the activations passed to get_auxiliary_loss being the step's
   sparsified code, every dead feature's column in them is entirely zero. *)
C13_DeadFeaturesDidNotFire ==
    Updated =>
        /\ aux.acts = code.f
        /\ \A j \in aux.dead :
              /\ ~code.active[j]
              /\ num_tokens_since_fired[j] # 0
              /\ \A b \in DOMAIN aux.acts : aux.acts[b][j] = 0

\* A step with a dead feature, in which other features fired and the dead
\* feature had a positive activation before the sparsification.
C13_Witness ==
    /\ Updated
    /\ aux.dead # {}
    /\ \E j \in DOMAIN code.active : code.active[j]
    /\ \E j \in aux.dead : \E b \in DOMAIN aux.post_relu : aux.post_relu[b][j] > 0

====
